---- MODULE Spec2Model ----
(***************************************************************************)
(* Model of the SecureAscon vault and envelope core                        *)
(* (src/src/lib/crypto/ascon-crypto.ts), of the zustand store that binds   *)
(* it to the UI (src/unnamed/part_000) and of the password-mode handlers   *)
(* of the messaging tab (src/src/components/messaging/messaging-tab.tsx).  *)
(*                                                                         *)
(* Conventions.                                                            *)
(*  - A JavaScript string is a sequence of code points (naturals); a       *)
(*    Uint8Array is a sequence of naturals in 0..255.                      *)
(*  - A nullable value is a sequence of length 0 (null) or 1 (the value).  *)
(*  - Several specifications share the module.  Spec drives the vault      *)
(*    through the store, one action per public operation, each call        *)
(*    awaited before the next; SpecRecord, SpecContacts, SpecMerge and     *)
(*    SpecAttempts are variations of it.  SpecEnvelope covers encrypt /    *)
(*    decrypt and the password-mode handlers, SpecSize and SpecFit the     *)
(*    size estimate.  SpecAsync lets calls overlap: a call is suspended    *)
(*    at each await and resumed by a later step.                           *)
(***************************************************************************)
EXTENDS Integers, Sequences, FiniteSets, TLC

VARIABLES
    \* ---- AsconCrypto instance (ascon-crypto.ts:5-8) and localStorage ----
    asconKey,        \* this.asconKey: Uint8Array | null
    contacts,        \* this.contacts: Contact[]
    masterKey,       \* this.masterKey: CryptoKey | null
    masterKeySalt,   \* this.masterKeySalt: Uint8Array | null
    storage,         \* localStorage['ascon80pq_vault']: string | null
    now,             \* Date.now()
    \* ---- zustand store (part_000:51-59) ----
    store,
    \* ---- the call made by the last step and what it returned or threw ----
    lastCall,
    \* ---- envelope and size scenarios ----
    env,
    sizeInfo,
    \* ---- calls suspended at an await, and LockScreen's isUnlocking ----
    pending,
    isUnlocking

vars == <<asconKey, contacts, masterKey, masterKeySalt, storage, now,
          store, lastCall, env, sizeInfo, pending, isUnlocking>>

-----------------------------------------------------------------------------
(* Nullable values *)

Null == <<>>

Some(x) == <<x>>

IsNull(v) == Len(v) = 0

-----------------------------------------------------------------------------
(* Characters used by the model's strings, as code points *)

\* '0' = 48, '9' = 57, 'A' = 65, 'F' = 70, 'Z' = 90, 'X' = 88, 'a' = 97,
\* 'f' = 102, 'x' = 120, 'z' = 122, ' ' = 32, '+' = 43, '-' = 45, '/' = 47,
\* '=' = 61, U+FEFF (byte order mark) = 65279, U+FFFD (replacement) = 65533

\* n copies of x
Repeat(x, n) == [i \in 1..n |-> x]

-----------------------------------------------------------------------------
(* arrayBufferToHex / hexToArrayBuffer                                      *)

\* b.toString(16) digit: lowercase
HexDigit(d) == IF d < 10 THEN 48 + d ELSE 97 + (d - 10)

\* a hex rendering without padStart(2, '0'): bytes below 16 give one digit
RECURSIVE arrayBufferToHexUnpadded(_)
arrayBufferToHexUnpadded(buffer) ==
    IF Len(buffer) = 0 THEN <<>>
    ELSE (IF Head(buffer) < 16 THEN <<HexDigit(Head(buffer))>>
          ELSE <<HexDigit(Head(buffer) \div 16), HexDigit(Head(buffer) % 16)>>)
         \o arrayBufferToHexUnpadded(Tail(buffer))

\* Array.from(buffer).map(b => b.toString(16).padStart(2, '0')).join('')
arrayBufferToHex(buffer) ==
    [i \in 1..(2 * Len(buffer)) |->
        LET b == buffer[(i + 1) \div 2]
        IN  IF i % 2 = 1 THEN HexDigit(b \div 16) ELSE HexDigit(b % 16)]

\* value of a hexadecimal digit, -1 when c is none
HexVal(c) ==
    IF c >= 48 /\ c <= 57 THEN c - 48
    ELSE IF c >= 97 /\ c <= 102 THEN c - 97 + 10
    ELSE IF c >= 65 /\ c <= 70 THEN c - 65 + 10
    ELSE -1

\* parseInt(byte, 16) of a two-character chunk, then the Uint8Array
\* conversion of the result: NaN becomes 0, a negative number wraps.
\* parseInt skips leading white space, accepts a sign, drops a 0x prefix and
\* stops at the first character that is no digit.
ParseInt16Uint8(c1, c2) ==
    LET v1 == HexVal(c1)
        v2 == HexVal(c2)
    IN  IF c1 = 32 \/ c1 = 43 THEN (IF v2 >= 0 THEN v2 ELSE 0)
        ELSE IF c1 = 45 THEN (IF v2 >= 0 THEN (256 - v2) % 256 ELSE 0)
        ELSE IF v1 < 0 THEN 0
        ELSE IF c1 = 48 /\ (c2 = 120 \/ c2 = 88) THEN 0
        ELSE IF v2 < 0 THEN v1
        ELSE 16 * v1 + v2

\* hexToArrayBuffer throws INVALID_INPUT on an odd length and on the empty
\* string (match() returns null)
hexToArrayBufferThrows(hex) == Len(hex) % 2 # 0 \/ Len(hex) = 0

hexToArrayBuffer(hex) ==
    [i \in 1..(Len(hex) \div 2) |-> ParseInt16Uint8(hex[2 * i - 1], hex[2 * i])]

-----------------------------------------------------------------------------
(* TextEncoder.encode / TextDecoder.decode (UTF-8), code points below 65536 *)

UTF8OfCodePoint(cp) ==
    IF cp < 128 THEN <<cp>>
    ELSE IF cp < 2048 THEN <<192 + (cp \div 64), 128 + (cp % 64)>>
    ELSE <<224 + (cp \div 4096), 128 + ((cp \div 64) % 64), 128 + (cp % 64)>>

\* new TextEncoder().encode(str): the encodings of the code points in order
\* (the string is halved so that the evaluation stays shallow)
RECURSIVE TextEncode(_)
TextEncode(str) ==
    IF Len(str) = 0 THEN <<>>
    ELSE IF Len(str) = 1 THEN UTF8OfCodePoint(str[1])
    ELSE LET h == Len(str) \div 2
         IN  TextEncode(SubSeq(str, 1, h)) \o TextEncode(SubSeq(str, h + 1, Len(str)))

IsContinuation(b) == b >= 128 /\ b < 192

\* the decoder proper: an ill-formed sequence decodes to U+FFFD
RECURSIVE UTF8Decode(_)
UTF8Decode(bytes) ==
    IF Len(bytes) = 0 THEN <<>>
    ELSE LET b1 == bytes[1]
             n  == Len(bytes)
         IN  IF b1 < 128 THEN <<b1>> \o UTF8Decode(Tail(bytes))
             ELSE IF b1 >= 194 /\ b1 < 224 /\ n >= 2 /\ IsContinuation(bytes[2])
                  THEN <<(b1 - 192) * 64 + (bytes[2] - 128)>>
                       \o UTF8Decode(SubSeq(bytes, 3, n))
             ELSE IF b1 >= 224 /\ b1 < 240 /\ n >= 3
                     /\ IsContinuation(bytes[2]) /\ IsContinuation(bytes[3])
                  THEN <<(b1 - 224) * 4096 + (bytes[2] - 128) * 64 + (bytes[3] - 128)>>
                       \o UTF8Decode(SubSeq(bytes, 4, n))
             ELSE <<65533>> \o UTF8Decode(Tail(bytes))

\* new TextDecoder().decode(bytes): ignoreBOM defaults to false, so a leading
\* U+FEFF is consumed as a byte order mark and is not part of the result
TextDecode(bytes) ==
    LET s == UTF8Decode(bytes)
    IN  IF Len(s) > 0 /\ s[1] = 65279 THEN Tail(s) ELSE s

-----------------------------------------------------------------------------
(* btoa / atob                                                              *)

\* the base64 alphabet: index 0..63 -> character
B64Char(i) ==
    IF i < 26 THEN 65 + i
    ELSE IF i < 52 THEN 97 + (i - 26)
    ELSE IF i < 62 THEN 48 + (i - 52)
    ELSE IF i = 62 THEN 43
    ELSE 47

\* character -> index, -1 when c is not in the alphabet
B64Index(c) ==
    IF c >= 65 /\ c <= 90 THEN c - 65
    ELSE IF c >= 97 /\ c <= 97 + 25 THEN c - 97 + 26
    ELSE IF c >= 48 /\ c <= 57 THEN c - 48 + 52
    ELSE IF c = 43 THEN 62
    ELSE IF c = 47 THEN 63
    ELSE -1

\* btoa(String.fromCharCode(...buffer)): 3 bytes -> 4 characters, '=' padding
arrayBufferToBase64(buffer) ==
    LET n      == Len(buffer)
        groups == (n + 2) \div 3
        At(k)  == IF k <= n THEN buffer[k] ELSE 0
    IN  [i \in 1..(4 * groups) |->
            LET g  == (i - 1) \div 4
                j  == (i - 1) % 4
                b1 == At(3 * g + 1)
                b2 == At(3 * g + 2)
                b3 == At(3 * g + 3)
            IN  IF j = 0 THEN B64Char(b1 \div 4)
                ELSE IF j = 1 THEN B64Char((b1 % 4) * 16 + (b2 \div 16))
                ELSE IF j = 2 THEN
                    (IF 3 * g + 2 > n THEN 61
                     ELSE B64Char((b2 % 16) * 4 + (b3 \div 64)))
                ELSE (IF 3 * g + 3 > n THEN 61 ELSE B64Char(b3 % 64))]

\* atob: when the length is a multiple of 4, one or two trailing '=' are
\* removed; what is left must be alphabet characters and its length must not
\* be 1 modulo 4
AtobStripped(s) ==
    LET n == Len(s)
    IN  IF n > 0 /\ n % 4 = 0 /\ s[n] = 61
        THEN (IF s[n - 1] = 61 THEN SubSeq(s, 1, n - 2) ELSE SubSeq(s, 1, n - 1))
        ELSE s

base64ToArrayBufferThrows(base64) ==
    LET d == AtobStripped(base64)
    IN  \/ Len(d) % 4 = 1
        \/ \E i \in 1..Len(d) : B64Index(d[i]) < 0

\* Uint8Array.from(atob(base64), c => c.charCodeAt(0))
base64ToArrayBuffer(base64) ==
    LET d == AtobStripped(base64)
        m == Len(d)
        n == (m * 6) \div 8
        V(k) == IF k <= m THEN B64Index(d[k]) ELSE 0
    IN  [i \in 1..n |->
            LET g == (i - 1) \div 3
                j == (i - 1) % 3
                c1 == V(4 * g + 1)
                c2 == V(4 * g + 2)
                c3 == V(4 * g + 3)
                c4 == V(4 * g + 4)
            IN  IF j = 0 THEN c1 * 4 + (c2 \div 16)
                ELSE IF j = 1 THEN (c2 % 16) * 16 + (c3 \div 4)
                ELSE (c3 % 4) * 64 + c4]

-----------------------------------------------------------------------------
(* External primitives.  ascon-js (Ascon-80pq) and WebCrypto's PBKDF2 are   *)
(* not part of the repository; the definitions below are byte-level         *)
(* stand-ins that have exactly the properties the callers rely on: the      *)
(* output lengths, determinism, dependence on every input, and a tag that   *)
(* only the encrypting key verifies.                                        *)

RECURSIVE ByteSum(_)
ByteSum(bytes) == IF Len(bytes) = 0 THEN 0 ELSE Head(bytes) + ByteSum(Tail(bytes))

At(bytes, i) == bytes[((i - 1) % Len(bytes)) + 1]

\* the 16-byte authentication tag over the encrypted bytes
AsconTag(key, nonce, body) ==
    [j \in 1..16 |-> (At(key, j) + 3 * At(key, j + 16) + At(nonce, j) + ByteSum(body) + j) % 256]

\* the encrypted bytes, as many as the data
AsconBody(key, nonce, data) ==
    [i \in 1..Len(data) |-> (data[i] + At(key, i) + At(nonce, i)) % 256]

\* Ascon.encrypt(key, nonce, data, {variant: "Ascon-80pq"}): ciphertext of
\* Len(data) bytes followed by the tag
AsconEncrypt(key, nonce, data) ==
    AsconBody(key, nonce, data) \o AsconTag(key, nonce, AsconBody(key, nonce, data))

AsconPlain(key, nonce, ciphertext) ==
    [i \in 1..(Len(ciphertext) - 16) |->
        (ciphertext[i] + 512 - At(key, i) - At(nonce, i)) % 256]

\* Ascon.decrypt throws when the tag does not verify
AsconDecryptThrows(key, nonce, ciphertext) ==
    \/ Len(ciphertext) < 16
    \/ SubSeq(ciphertext, Len(ciphertext) - 15, Len(ciphertext))
          # AsconTag(key, nonce, SubSeq(ciphertext, 1, Len(ciphertext) - 16))

AsconDecrypt(key, nonce, ciphertext) == AsconPlain(key, nonce, ciphertext)

\* subtle.importKey('raw', encode(password), 'PBKDF2') + subtle.deriveKey(
\*   {PBKDF2, salt, iterations, SHA-256}, ..., {length: bits}) + exportKey
PBKDF2(password, salt, iterations, bits) ==
    LET pw     == TextEncode(password)
        pwPart == ByteSum(pw) + 5 * Len(pw)
        rounds == iterations \div 10000
    IN  [i \in 1..(bits \div 8) |-> (pwPart + At(salt, i) + rounds * i) % 256]

-----------------------------------------------------------------------------
(* Results of calls: a returned value or a thrown CryptoError               *)

Returned(v) == [ok |-> TRUE, code |-> "", value |-> v]

Thrown(c) == [ok |-> FALSE, code |-> c, value |-> <<>>]

-----------------------------------------------------------------------------
(* AsconCrypto.encrypt / decrypt / deriveKey                                *)

\* encrypt(key, plaintext), nonce being the randomBytes(16) it draws
encrypt(key, plaintext, nonce) ==
    LET data       == TextEncode(plaintext)
        ciphertext == AsconEncrypt(key, nonce, data)
    IN  Returned(arrayBufferToBase64(nonce \o ciphertext))

\* position at which decrypt splits nonce from ciphertext
NonceLength == 16

\* a decrypt that answers the empty string where decrypt throws
decryptReturnsEmptyOnFailure(key, encryptedData) ==
    IF base64ToArrayBufferThrows(encryptedData) THEN Returned(<<>>)
    ELSE LET data       == base64ToArrayBuffer(encryptedData)
             nonce      == SubSeq(data, 1, NonceLength)
             ciphertext == SubSeq(data, NonceLength + 1, Len(data))
         IN  IF Len(data) < 32 THEN Returned(<<>>)
             ELSE IF AsconDecryptThrows(key, nonce, ciphertext) THEN Returned(<<>>)
             ELSE Returned(TextDecode(AsconDecrypt(key, nonce, ciphertext)))

\* decrypt(key, encryptedData): every throw inside the try block, the
\* INVALID_INPUT of the length check included, is caught and rethrown as
\* DECRYPTION_FAILED
decrypt(key, encryptedData) ==
    IF base64ToArrayBufferThrows(encryptedData) THEN Thrown("DECRYPTION_FAILED")
    ELSE LET data       == base64ToArrayBuffer(encryptedData)
             nonce      == SubSeq(data, 1, NonceLength)
             ciphertext == SubSeq(data, NonceLength + 1, Len(data))
         IN  IF Len(data) < 32 THEN Thrown("DECRYPTION_FAILED")
             ELSE IF AsconDecryptThrows(key, nonce, ciphertext)
                  THEN Thrown("DECRYPTION_FAILED")
             ELSE Returned(TextDecode(AsconDecrypt(key, nonce, ciphertext)))

\* deriveKey(password), salt being the randomBytes(16) it draws
deriveKey(password, salt) == [key |-> PBKDF2(password, salt, 250000, 160), salt |-> salt]

-----------------------------------------------------------------------------
(* MessagingTab.handleEncrypt / handleDecrypt, password mode                *)

\* white space String.prototype.trim removes (space, tab, LF, CR)
IsWhiteSpace(c) == c \in {32, 9, 10, 13}

\* !str.trim()
IsBlank(str) == \A i \in 1..Len(str) : IsWhiteSpace(str[i])

\* number of characters handleDecrypt takes as the hex salt
SaltPrefixLength == 32

\* handleEncrypt, else-branch: salt and nonce are the random draws of
\* deriveKey and encrypt
handleEncryptPassword(message, password, salt, nonce) ==
    IF IsBlank(message) THEN Thrown("NO_MESSAGE")
    ELSE IF IsBlank(password) THEN Thrown("NO_PASSWORD")
    ELSE LET derived   == deriveKey(password, salt)
             encrypted == encrypt(derived.key, message, nonce)
             saltHex   == arrayBufferToHex(derived.salt)
         IN  IF encrypted.ok THEN Returned(saltHex \o encrypted.value) ELSE encrypted

\* handleDecrypt, else-branch
handleDecryptPassword(message, password) ==
    IF IsBlank(message) THEN Thrown("NO_MESSAGE")
    ELSE IF IsBlank(password) THEN Thrown("NO_PASSWORD")
    ELSE IF Len(message) < 32 THEN Thrown("INVALID_FORMAT")
    ELSE LET saltHex       == SubSeq(message, 1, SaltPrefixLength)
             encryptedData == SubSeq(message, SaltPrefixLength + 1, Len(message))
         IN  IF hexToArrayBufferThrows(saltHex) THEN Thrown("INVALID_INPUT")
             ELSE LET salt == hexToArrayBuffer(saltHex)
                      key  == PBKDF2(password, salt, 250000, 160)
                  IN  decrypt(key, encryptedData)

-----------------------------------------------------------------------------
(* AsconCrypto.calculateMessageSize                                         *)

\* a size estimate rounded down, Math.floor(x * 4/3)
FloorFourThirds(x) == (x * 4) \div 3

\* Math.ceil(x * 4/3) for a natural x: x * 4 / 3 is evaluated left to right
\* in doubles, the product is exact and the quotient of an exact multiple of
\* 3 is exact, so the ceiling is the integer ceiling
CeilFourThirds(x) == (x * 4 + 2) \div 3

\* a size computation whose thresholds are compared with < instead of <=
calculateMessageSizeStrict(message) ==
    LET messageBytes == Len(TextEncode(message))
        totalSize    == CeilFourThirds(messageBytes + 32)
    IN  [messageBytes |-> messageBytes,
         encodedBytes |-> totalSize,
         status       |-> IF totalSize < 200 THEN "ok"
                          ELSE IF totalSize < 237 THEN "warning"
                          ELSE "error"]

calculateMessageSize(message) ==
    LET messageBytes == Len(TextEncode(message))
        totalSize    == CeilFourThirds(messageBytes + 32)
    IN  [messageBytes |-> messageBytes,
         encodedBytes |-> totalSize,
         status       |-> IF totalSize <= 200 THEN "ok"
                          ELSE IF totalSize <= 237 THEN "warning"
                          ELSE "error"]

-----------------------------------------------------------------------------
(* The vault: AsconCrypto's state, localStorage and WebCrypto's AES-GCM      *)

\* The instance and the storage entry as one value, so that operations are
\* functions from it to the next one and a result.
Instance(k, cs, mk, salt, st) ==
    [asconKey |-> k, contacts |-> cs, masterKey |-> mk, masterKeySalt |-> salt,
     storage |-> st]

Outcome(c, r) == [c |-> c, result |-> r]

\* subtle.encrypt({name: 'AES-GCM', iv}, key, plaintext): the ciphertext is
\* kept symbolic.  The base64 text of the record's data field and the JSON
\* text of the plaintext are carried as the values they encode.
AesGcmEncrypt(key, iv, plaintext) == [key |-> key, iv |-> iv, plaintext |-> plaintext]

\* subtle.decrypt rejects (OperationError) unless key and iv are the ones
\* the ciphertext was made with
AesGcmDecryptThrows(key, iv, ciphertext) == ciphertext.key # key \/ ciphertext.iv # iv

AesGcmDecrypt(key, iv, ciphertext) == ciphertext.plaintext

\* JSON.stringify(vault) of an EncryptedStorageState
VaultText(saltHex, ivHex, data) ==
    [json |-> TRUE, salt |-> Some(saltHex), iv |-> Some(ivHex), data |-> Some(data)]

\* hasVault(): localStorage.getItem(...) !== null
hasVault(c) == ~IsNull(c.storage)

\* isLocked()
isLocked(c) == hasVault(c) /\ IsNull(c.masterKey)

\* this.asconKey.fill(0): what the buffer holds afterwards (null when there
\* was no key); getKey() and generateKey() hand out this same buffer
WipedKey(c) ==
    IF IsNull(c.asconKey) THEN Null
    ELSE Some([i \in 1..Len(c.asconKey[1]) |-> 0])

\* a clearAll that forgets to reset the master key salt
clearAllKeepsSalt(c) ==
    [c EXCEPT !.asconKey = Null,
              !.masterKey = Null,
              !.contacts = <<>>,
              !.storage = Null]

\* clearAll()
clearAll(c) ==
    [c EXCEPT !.asconKey = Null,
              !.masterKey = Null,
              !.masterKeySalt = Null,
              !.contacts = <<>>,
              !.storage = Null]

\* a saveState without the master key guard of lines 311-313
saveStateUnguarded(c, iv) ==
    LET state == [asconKey |-> IF IsNull(c.asconKey) THEN Null
                               ELSE Some(arrayBufferToHex(c.asconKey[1])),
                  contacts |-> c.contacts]
        encryptedData == AesGcmEncrypt(c.masterKey, iv, state)
    IN  IF IsNull(c.masterKeySalt) THEN Outcome(c, Thrown("TypeError"))
        ELSE Outcome([c EXCEPT !.storage =
                         Some(VaultText(arrayBufferToHex(c.masterKeySalt[1]),
                                        arrayBufferToHex(iv), encryptedData))],
                     Returned(TRUE))

\* a saveState that writes the iv, padded to 16 bytes, into the salt field
saveStateSaltFromIv(c, iv) ==
    IF IsNull(c.masterKey) THEN Outcome(c, Thrown("ENCRYPTION_FAILED"))
    ELSE LET state == [asconKey |-> IF IsNull(c.asconKey) THEN Null
                                    ELSE Some(arrayBufferToHex(c.asconKey[1])),
                       contacts |-> c.contacts]
             encryptedData == AesGcmEncrypt(c.masterKey[1], iv, state)
         IN  Outcome([c EXCEPT !.storage =
                         Some(VaultText(arrayBufferToHex(iv \o Repeat(0, 4)),
                                        arrayBufferToHex(iv), encryptedData))],
                     Returned(TRUE))

\* saveState(), iv being the randomBytes(12) it draws
saveState(c, iv) ==
    IF IsNull(c.masterKey) THEN Outcome(c, Thrown("ENCRYPTION_FAILED"))
    ELSE LET state == [asconKey |-> IF IsNull(c.asconKey) THEN Null
                                    ELSE Some(arrayBufferToHex(c.asconKey[1])),
                       contacts |-> c.contacts]
             encryptedData == AesGcmEncrypt(c.masterKey[1], iv, state)
         IN  IF IsNull(c.masterKeySalt) THEN Outcome(c, Thrown("TypeError"))
             ELSE Outcome([c EXCEPT !.storage =
                              Some(VaultText(arrayBufferToHex(c.masterKeySalt[1]),
                                             arrayBufferToHex(iv), encryptedData))],
                          Returned(TRUE))

\* loadStateFromStorage(), called by the constructor
loadStateFromStorage(c) ==
    IF IsNull(c.storage) THEN c
    ELSE LET vault == c.storage[1]
         IN  IF ~vault.json THEN clearAll(c)
             ELSE IF IsNull(vault.salt) THEN clearAll(c)
             ELSE IF hexToArrayBufferThrows(vault.salt[1]) THEN clearAll(c)
             ELSE [c EXCEPT !.masterKeySalt = Some(hexToArrayBuffer(vault.salt[1]))]

\* new AsconCrypto() over the storage entry st
NewAsconCrypto(st) == loadStateFromStorage(Instance(Null, <<>>, Null, Null, st))

\* loadState(): any throw inside the try block ends in clearAll()
loadState(c) ==
    IF IsNull(c.masterKey) THEN Outcome(c, Returned(FALSE))
    ELSE IF IsNull(c.storage) THEN Outcome(c, Returned(FALSE))
    ELSE LET vault == c.storage[1]
         IN  IF \/ ~vault.json
                \/ IsNull(vault.iv)
                \/ IsNull(vault.data)
             THEN Outcome(clearAll(c), Returned(FALSE))
             ELSE IF hexToArrayBufferThrows(vault.iv[1])
             THEN Outcome(clearAll(c), Returned(FALSE))
             ELSE LET iv   == hexToArrayBuffer(vault.iv[1])
                      data == vault.data[1]
                  IN  IF AesGcmDecryptThrows(c.masterKey[1], iv, data)
                      THEN Outcome(clearAll(c), Returned(FALSE))
                      ELSE LET state == AesGcmDecrypt(c.masterKey[1], iv, data)
                           IN  IF ~IsNull(state.asconKey)
                                  /\ hexToArrayBufferThrows(state.asconKey[1])
                               THEN Outcome(clearAll(c), Returned(FALSE))
                               ELSE Outcome(
                                      [c EXCEPT
                                         !.asconKey =
                                            IF IsNull(state.asconKey) THEN Null
                                            ELSE Some(hexToArrayBuffer(state.asconKey[1])),
                                         !.contacts = state.contacts],
                                      Returned(TRUE))

\* unlock(password), salt being the randomBytes(16) it draws for a new vault
unlock(c, password, salt) ==
    LET c1 == IF IsNull(c.masterKeySalt) THEN [c EXCEPT !.masterKeySalt = Some(salt)]
              ELSE c
        derivedKey == PBKDF2(password, c1.masterKeySalt[1], 300000, 256)
        c2 == [c1 EXCEPT !.masterKey = Some(derivedKey)]
    IN  IF ~IsNull(c2.storage) THEN loadState(c2)
        ELSE Outcome(c2, Returned(TRUE))

-----------------------------------------------------------------------------
(* Keys and contacts                                                        *)

\* String.prototype.toLowerCase on the model's characters
LowerChar(ch) == IF ch >= 65 /\ ch <= 90 THEN ch + 32 ELSE ch

toLowerCase(str) == [i \in 1..Len(str) |-> LowerChar(str[i])]

\* String.prototype.trim
trim(str) ==
    LET keep == {i \in 1..Len(str) : ~IsWhiteSpace(str[i])}
    IN  IF keep = {} THEN <<>>
        ELSE SubSeq(str, CHOOSE i \in keep : \A j \in keep : i <= j,
                         CHOOSE i \in keep : \A j \in keep : i >= j)

\* Number.prototype.toString of a natural (decimal digits)
RECURSIVE NumberToString(_)
NumberToString(n) ==
    IF n < 10 THEN <<48 + n>>
    ELSE NumberToString(n \div 10) \o <<48 + (n % 10)>>

\* new Date().toISOString() at clock value t: a rendering of t, one-to-one
toISOString(t) == NumberToString(t) \o <<90>>

\* length addContact requires of keyHex
KeyHexLength == 40

\* /^[0-9a-fA-F]+$/.test(str)
IsHexString(str) == Len(str) > 0 /\ \A i \in 1..Len(str) : HexVal(str[i]) >= 0

NameExists(cs, name) ==
    \E i \in 1..Len(cs) : toLowerCase(cs[i].name) = toLowerCase(name)

KeyExists(cs, keyHex) == \E i \in 1..Len(cs) : cs[i].keyHex = keyHex

\* generateKey(), key being the randomBytes(20) and iv the randomBytes(12)
generateKey(c, key, iv) ==
    LET c1 == [c EXCEPT !.asconKey = Some(key)]
        s  == saveState(c1, iv)
    IN  IF s.result.ok THEN Outcome(s.c, Returned(key)) ELSE s

\* importKey(jsonData).  A document is [json, key]: json tells whether
\* JSON.parse accepts it, key is the ascon80pqKey field when it is a string.
importKey(c, doc, iv) ==
    IF ~doc.json THEN Outcome(c, Returned(FALSE))
    ELSE IF IsNull(doc.key) \/ Len(doc.key[1]) = 0 THEN Outcome(c, Returned(FALSE))
    ELSE IF hexToArrayBufferThrows(doc.key[1]) THEN Outcome(c, Returned(FALSE))
    ELSE LET c1 == [c EXCEPT !.asconKey = Some(hexToArrayBuffer(doc.key[1]))]
             s  == saveState(c1, iv)
         IN  IF s.result.ok THEN Outcome(s.c, Returned(TRUE))
             ELSE Outcome(s.c, Returned(FALSE))

\* an addContact whose duplicate check compares the names as they are typed
addContactCaseSensitive(c, name, keyHex, t, iv) ==
    IF IsBlank(name) THEN Outcome(c, Thrown("INVALID_INPUT"))
    ELSE IF Len(keyHex) # KeyHexLength \/ ~IsHexString(keyHex)
         THEN Outcome(c, Thrown("INVALID_KEY"))
    ELSE IF \E i \in 1..Len(c.contacts) : c.contacts[i].name = name
         THEN Outcome(c, Thrown("INVALID_INPUT"))
    ELSE LET contact == [id |-> NumberToString(t), name |-> trim(name),
                         keyHex |-> keyHex, added |-> toISOString(t)]
             c1 == [c EXCEPT !.contacts = Append(c.contacts, contact)]
             s  == saveState(c1, iv)
         IN  IF s.result.ok THEN Outcome(s.c, Returned(contact)) ELSE s

\* addContact(name, keyHex) at clock value t
addContact(c, name, keyHex, t, iv) ==
    IF IsBlank(name) THEN Outcome(c, Thrown("INVALID_INPUT"))
    ELSE IF Len(keyHex) # KeyHexLength \/ ~IsHexString(keyHex)
         THEN Outcome(c, Thrown("INVALID_KEY"))
    ELSE IF NameExists(c.contacts, name) THEN Outcome(c, Thrown("INVALID_INPUT"))
    ELSE LET contact == [id |-> NumberToString(t), name |-> trim(name),
                         keyHex |-> keyHex, added |-> toISOString(t)]
             c1 == [c EXCEPT !.contacts = Append(c.contacts, contact)]
             s  == saveState(c1, iv)
         IN  IF s.result.ok THEN Outcome(s.c, Returned(contact)) ELSE s

\* removeContact(id)
removeContact(c, id, iv) ==
    LET kept == SelectSeq(c.contacts, LAMBDA x : x.id # id)
        c1   == [c EXCEPT !.contacts = kept]
    IN  IF Len(kept) < Len(c.contacts)
        THEN LET s == saveState(c1, iv)
             IN  IF s.result.ok THEN Outcome(s.c, Returned(TRUE)) ELSE s
        ELSE Outcome(c1, Returned(FALSE))

\* a for-loop of importContacts that looks for duplicate names only
RECURSIVE ImportLoopNameOnly(_, _, _, _, _)
ImportLoopNameOnly(cs, entries, imported, duplicates, t) ==
    IF Len(entries) = 0
    THEN [contacts |-> cs, imported |-> imported, duplicates |-> duplicates, threw |-> FALSE]
    ELSE LET e == Head(entries)
         IN  IF IsNull(e.name) \/ IsNull(e.keyHex)
             THEN ImportLoopNameOnly(cs, Tail(entries), imported, duplicates, t)
             ELSE IF ~e.nameIsString
             THEN [contacts |-> cs, imported |-> imported, duplicates |-> duplicates,
                   threw |-> TRUE]
             ELSE IF ~NameExists(cs, e.name[1])
             THEN ImportLoopNameOnly(
                    Append(cs, [id |-> NumberToString(t) \o NumberToString(imported),
                                name |-> e.name[1],
                                keyHex |-> e.keyHex[1],
                                added |-> IF IsNull(e.added) THEN toISOString(t)
                                          ELSE e.added[1]]),
                    Tail(entries), imported + 1, duplicates, t)
             ELSE ImportLoopNameOnly(cs, Tail(entries), imported, duplicates + 1, t)

\* The for-loop of importContacts over the candidates.  A candidate is
\* [name, keyHex, added, nameIsString]: name, keyHex and added are null when
\* the field is missing or falsy; a name that is no string makes
\* contact.name.toLowerCase() throw.
RECURSIVE ImportLoop(_, _, _, _, _)
ImportLoop(cs, entries, imported, duplicates, t) ==
    IF Len(entries) = 0
    THEN [contacts |-> cs, imported |-> imported, duplicates |-> duplicates, threw |-> FALSE]
    ELSE LET e == Head(entries)
         IN  IF IsNull(e.name) \/ IsNull(e.keyHex)
             THEN ImportLoop(cs, Tail(entries), imported, duplicates, t)
             ELSE IF ~e.nameIsString
             THEN [contacts |-> cs, imported |-> imported, duplicates |-> duplicates,
                   threw |-> TRUE]
             ELSE IF ~NameExists(cs, e.name[1]) /\ ~KeyExists(cs, e.keyHex[1])
             THEN ImportLoop(
                    Append(cs, [id |-> NumberToString(t) \o NumberToString(imported),
                                name |-> e.name[1],
                                keyHex |-> e.keyHex[1],
                                added |-> IF IsNull(e.added) THEN toISOString(t)
                                          ELSE e.added[1]]),
                    Tail(entries), imported + 1, duplicates, t)
             ELSE ImportLoop(cs, Tail(entries), imported, duplicates + 1, t)

\* importContacts(jsonData).  A document is [json, contacts]: contacts is
\* null when data.contacts is no array.
importContacts(c, doc, t, iv) ==
    IF ~doc.json THEN Outcome(c, Thrown("INVALID_INPUT"))
    ELSE IF IsNull(doc.contacts)
         THEN Outcome(c, Returned([imported |-> 0, duplicates |-> 0]))
    ELSE LET l  == ImportLoop(c.contacts, doc.contacts[1], 0, 0, t)
             c1 == [c EXCEPT !.contacts = l.contacts]
         IN  IF l.threw THEN Outcome(c1, Thrown("INVALID_INPUT"))
             ELSE IF l.imported > 0
             THEN LET s == saveState(c1, iv)
                  IN  IF s.result.ok
                      THEN Outcome(s.c, Returned([imported |-> l.imported,
                                                  duplicates |-> l.duplicates]))
                      ELSE Outcome(s.c, Thrown("INVALID_INPUT"))
             ELSE Outcome(c1, Returned([imported |-> l.imported,
                                        duplicates |-> l.duplicates]))

-----------------------------------------------------------------------------
(* Bounds and input domains                                                 *)

MaxContacts == 1

StartTime == 1000

MaxAsciiChars == 230

MaxWideChars == 2

\* master passwords: "p1", "p2"
Passwords == {<<112, 49>>, <<112, 50>>}

\* values randomBytes(16) yields for a vault or message salt
RandomSalts == {Repeat(10, 16), Repeat(203, 16)}

\* values randomBytes(12) yields for the AES-GCM iv
RandomIVs == {Repeat(1, 12)}

\* values randomBytes(20) yields for a personal key
RandomKeys == {Repeat(7, 20)}

\* values randomBytes(16) yields for a message nonce
RandomNonces == {Repeat(5, 16), Repeat(250, 16)}

\* "c3" twenty times: a well-formed 40-character key
HexKeyC == arrayBufferToHex(Repeat(195, 20))

\* "0f" twenty times, upper and lower case mixed
HexKeyD == [i \in 1..40 |-> IF i % 2 = 1 THEN 48 ELSE 70]

\* key export documents handed to importKey
KeyDocuments ==
    { [json |-> TRUE, key |-> Some(HexKeyC)],        \* a well-formed export
      [json |-> TRUE, key |-> Some(<<97, 98, 99>>)], \* "abc": odd length
      [json |-> TRUE, key |-> Some(<<49, 50, 97, 98>>)], \* "12ab": two bytes
      [json |-> FALSE, key |-> Null] }               \* not JSON

\* "Bob" and the blank name " "
ContactNames == {<<66, 111, 98>>, <<32>>}

\* keyHex arguments: a well-formed key and "12"
ContactKeys == {HexKeyD, <<49, 50>>}

Candidate(name, keyHex) ==
    [name |-> Some(name), keyHex |-> Some(keyHex), added |-> Null, nameIsString |-> TRUE]

\* contact export documents handed to importContacts: one contact "Ann"
\* followed by an entry whose name is a number, and a text that is no JSON
ContactDocuments ==
    { [json |-> TRUE, contacts |-> Some(<<Candidate(<<65, 110, 110>>, HexKeyC),
                                          [name |-> Some(<<55>>), keyHex |-> Some(HexKeyC),
                                           added |-> Null, nameIsString |-> FALSE]>>)],
      [json |-> FALSE, contacts |-> Null] }

-----------------------------------------------------------------------------
(* The zustand store                                                        *)

\* The flags of the state create() returns, part_000:51-59.  The store's
\* copy of the contact list and the UI selection (currentMode,
\* selectedContactId) are not modelled: the contact list is read from the
\* instance.
StoreInitial ==
    [isLocked |-> TRUE, hasVault |-> FALSE, isInitialized |-> FALSE, hasKey |-> FALSE]

\* refreshState()
refreshState(st, c) ==
    [st EXCEPT !.hasKey = ~IsNull(c.asconKey),
               !.isLocked = isLocked(c),
               !.hasVault = hasVault(c)]

-----------------------------------------------------------------------------
(* Specification Spec: the vault driven through the store                   *)

This == Instance(asconKey, contacts, masterKey, masterKeySalt, storage)

Call(op, arg, result) == [op |-> op, arg |-> arg, result |-> result]

EnvIdle == [op |-> "none", key |-> <<>>, password |-> <<>>, message |-> <<>>,
            salt |-> <<>>, nonce |-> <<>>, text |-> <<>>,
            decKey |-> <<>>, decPassword |-> <<>>, result |-> Returned(<<>>)]

SizeIdle == [message |-> <<>>, result |-> calculateMessageSize(<<>>)]

\* the instance, the store and the record of the call after a step
Becomes(c, st, call) ==
    /\ asconKey' = c.asconKey
    /\ contacts' = c.contacts
    /\ masterKey' = c.masterKey
    /\ masterKeySalt' = c.masterKeySalt
    /\ storage' = c.storage
    /\ store' = st
    /\ lastCall' = call
    /\ UNCHANGED <<now, env, sizeInfo, pending, isUnlocking>>

Init ==
    /\ asconKey = Null
    /\ contacts = <<>>
    /\ masterKey = Null
    /\ masterKeySalt = Null
    /\ storage = Null
    /\ now = StartTime
    /\ store = StoreInitial
    /\ lastCall = Call("load", <<>>, Returned(TRUE))
    /\ env = EnvIdle
    /\ sizeInfo = SizeIdle
    /\ pending = <<>>
    /\ isUnlocking = FALSE

\* The page is loaded again: the module-level store and its AsconCrypto are
\* constructed anew over the same localStorage (part_000:38-39).
Reload ==
    /\ Becomes(NewAsconCrypto(storage), StoreInitial,
               Call("load", <<>>, Returned(TRUE)))

\* initialize(), run once by App's effect
Initialize ==
    /\ ~store.isInitialized
    /\ Becomes(This, [refreshState(store, This) EXCEPT !.isInitialized = TRUE],
               Call("initialize", <<>>, Returned(TRUE)))

\* store.unlock(password)
Unlock ==
    \E password \in Passwords, salt \in RandomSalts :
        LET o == unlock(This, password, salt)
        IN  /\ Becomes(o.c,
                       IF o.result.value THEN refreshState(store, o.c) ELSE store,
                       Call("unlock", password, o.result))

\* store.generateKey()
GenerateKey ==
    \E key \in RandomKeys, iv \in RandomIVs :
        LET o == generateKey(This, key, iv)
        IN  /\ Becomes(o.c, IF o.result.ok THEN refreshState(store, o.c) ELSE store,
                       Call("generateKey", <<>>, o.result))

\* store.importKey(keyData)
ImportKey ==
    \E doc \in KeyDocuments, iv \in RandomIVs :
        LET o == importKey(This, doc, iv)
        IN  /\ Becomes(o.c, IF o.result.value THEN refreshState(store, o.c) ELSE store,
                       Call("importKey", <<>>, o.result))

\* store.addContact(name, keyHex)
AddContact ==
    \E name \in ContactNames, keyHex \in ContactKeys, iv \in RandomIVs :
        LET o == addContact(This, name, keyHex, now, iv)
        IN  /\ Len(contacts) < MaxContacts
            /\ Becomes(o.c, IF o.result.ok THEN refreshState(store, o.c) ELSE store,
                       Call("addContact", <<>>, o.result))

\* store.removeContact(id), for the id of a listed contact or an unknown id
RemoveContact ==
    \E id \in {contacts[i].id : i \in 1..Len(contacts)} \cup {<<48>>}, iv \in RandomIVs :
        LET o == removeContact(This, id, iv)
        IN  /\ Becomes(o.c,
                       IF o.result.ok /\ o.result.value THEN refreshState(store, o.c)
                       ELSE store,
                       Call("removeContact", <<>>, o.result))

\* store.importContacts(jsonData)
ImportContacts ==
    \E doc \in ContactDocuments, iv \in RandomIVs :
        LET o == importContacts(This, doc, now, iv)
        IN  /\ Len(o.c.contacts) <= MaxContacts
            /\ Becomes(o.c,
                       IF o.result.ok /\ o.result.value.imported > 0
                       THEN refreshState(store, o.c) ELSE store,
                       Call("importContacts", <<>>, o.result))

\* store.clearAll()
ClearAll ==
    /\ Becomes(clearAll(This),
               [store EXCEPT !.hasKey = FALSE, !.isLocked = TRUE, !.hasVault = FALSE],
               Call("clearAll", <<>>, Returned(WipedKey(This))))

\* crypto.saveState() called directly on the instance the store exposes
SaveState ==
    \E iv \in RandomIVs :
        LET o == saveState(This, iv)
        IN  /\ Becomes(o.c, store, Call("saveState", <<>>, o.result))

Next ==
    \/ Reload
    \/ Initialize
    \/ Unlock
    \/ GenerateKey
    \/ ImportKey
    \/ AddContact
    \/ RemoveContact
    \/ ImportContacts
    \/ ClearAll
    \/ SaveState

Spec == Init /\ [][Next]_vars

-----------------------------------------------------------------------------
(* Specification SpecEnvelope: encrypt, decrypt and the password handlers   *)

\* 20-byte keys: two that differ in every byte, one that differs from the
\* first in the last byte only
MessageKeys ==
    {Repeat(17, 20), Repeat(171, 20), [i \in 1..20 |-> IF i = 20 THEN 18 ELSE 17]}

\* "", "hi", "é", "hi!", "€1", and "hi" preceded by U+FEFF
Messages ==
    {<<>>, <<104, 105>>, <<233>>, <<104, 105, 33>>, <<8364, 49>>, <<65279, 104, 105>>}

\* passwords typed into the message form: "p1", "p2", " "
MessagePasswords == Passwords \cup {<<32>>}

\* texts pasted into the form that no encrypt call produced: "", "AAAA",
\* "!!!!", and the base64 of 44 zero bytes
ForeignTexts ==
    {<<>>, <<65, 65, 65, 65>>, <<33, 33, 33, 33>>, arrayBufferToBase64(Repeat(0, 44))}

VaultIdle ==
    /\ asconKey = Null
    /\ contacts = <<>>
    /\ masterKey = Null
    /\ masterKeySalt = Null
    /\ storage = Null
    /\ now = StartTime
    /\ store = StoreInitial
    /\ lastCall = Call("load", <<>>, Returned(TRUE))
    /\ pending = <<>>
    /\ isUnlocking = FALSE

vaultVars == <<asconKey, contacts, masterKey, masterKeySalt, storage, now, store, lastCall,
               pending, isUnlocking>>

InitEnvelope == VaultIdle /\ env = EnvIdle /\ sizeInfo = SizeIdle

\* crypto.encrypt(key, message), contact-key and personal-key modes
EnvEncrypt ==
    /\ env.op = "none"
    /\ \E key \in MessageKeys, message \in Messages, nonce \in RandomNonces :
        LET r == encrypt(key, message, nonce)
        IN  /\ env' = [EnvIdle EXCEPT !.op = "encrypt", !.key = key, !.message = message,
                                      !.nonce = nonce, !.text = r.value, !.result = r]
            /\ UNCHANGED <<vaultVars, sizeInfo>>

\* crypto.decrypt(key, text) of the text the last encrypt call returned
EnvDecrypt ==
    /\ env.op = "encrypt"
    /\ \E key \in MessageKeys :
        /\ env' = [env EXCEPT !.op = "decrypt", !.decKey = key,
                              !.result = decrypt(key, env.text)]
        /\ UNCHANGED <<vaultVars, sizeInfo>>

\* crypto.decrypt(key, text) of a text from elsewhere
EnvDecryptForeign ==
    /\ env.op = "none"
    /\ \E key \in MessageKeys, text \in ForeignTexts :
        /\ env' = [EnvIdle EXCEPT !.op = "decryptForeign", !.decKey = key, !.text = text,
                                  !.result = decrypt(key, text)]
        /\ UNCHANGED <<vaultVars, sizeInfo>>

\* handleEncrypt in password mode
EnvHandleEncrypt ==
    /\ env.op = "none"
    /\ \E password \in MessagePasswords, message \in Messages \cup {<<32>>},
       salt \in RandomSalts, nonce \in RandomNonces :
        LET r == handleEncryptPassword(message, password, salt, nonce)
        IN  /\ env' = [EnvIdle EXCEPT !.op = "handleEncrypt", !.password = password,
                                      !.message = message, !.salt = salt, !.nonce = nonce,
                                      !.text = r.value, !.result = r]
            /\ UNCHANGED <<vaultVars, sizeInfo>>

\* handleDecrypt in password mode, on the text handleEncrypt displayed
EnvHandleDecrypt ==
    /\ env.op = "handleEncrypt"
    /\ env.result.ok
    /\ \E password \in MessagePasswords :
        /\ env' = [env EXCEPT !.op = "handleDecrypt", !.decPassword = password,
                              !.result = handleDecryptPassword(env.text, password)]
        /\ UNCHANGED <<vaultVars, sizeInfo>>

\* MessagingTab.clearAll: the form is emptied
EnvClear ==
    /\ env.op # "none"
    /\ env' = EnvIdle
    /\ UNCHANGED <<vaultVars, sizeInfo>>

NextEnvelope ==
    \/ EnvClear
    \/ EnvEncrypt
    \/ EnvDecrypt
    \/ EnvDecryptForeign
    \/ EnvHandleEncrypt
    \/ EnvHandleDecrypt

SpecEnvelope == InitEnvelope /\ [][NextEnvelope]_vars

-----------------------------------------------------------------------------
(* Specification SpecSize: calculateMessageSize                              *)

InitSize == VaultIdle /\ env = EnvIdle /\ sizeInfo = SizeIdle

\* One more character is typed at the end of the message box: the letter
\* "a", or the letter "é" once the a's are typed (messages are a's followed
\* by é's).
Measure ==
    \E ch \in {97, 233} :
        LET message == Append(sizeInfo.message, ch)
            wide    == Cardinality({i \in 1..Len(message) : message[i] = 233})
        IN  /\ ch = 97 => wide = 0
            /\ Len(message) - wide <= MaxAsciiChars
            /\ wide <= MaxWideChars
            /\ sizeInfo' = [message |-> message, result |-> calculateMessageSize(message)]
            /\ UNCHANGED <<vaultVars, env>>

\* MessagingTab.clearAll: the message box is emptied
MeasureClear ==
    /\ sizeInfo.message # <<>>
    /\ sizeInfo' = SizeIdle
    /\ UNCHANGED <<vaultVars, env>>

NextSize == Measure \/ MeasureClear


SpecSize == InitSize /\ [][NextSize]_vars

-----------------------------------------------------------------------------
(* Specification SpecFit: the message box, its size estimate and the text    *)
(* that encrypt returns for the message, contact-key and personal-key modes  *)

\* One more character is typed at the end of the message box while no
\* result is displayed: "a", or "é" once the a's are typed.
FitType ==
    /\ env.op = "none"
    /\ \E ch \in {97, 233} :
        LET message == Append(sizeInfo.message, ch)
            wide    == Cardinality({i \in 1..Len(message) : message[i] = 233})
        IN  /\ ch = 97 => wide = 0
            /\ Len(message) - wide <= MaxAsciiChars
            /\ wide <= MaxWideChars
            /\ sizeInfo' = [message |-> message, result |-> calculateMessageSize(message)]
            /\ UNCHANGED <<vaultVars, env>>

\* handleEncrypt in contact or mykey mode: crypto.encrypt(key, message) of
\* the message in the box, which is not blank
FitEncrypt ==
    /\ env.op = "none"
    /\ ~IsBlank(sizeInfo.message)
    /\ \E key \in {Repeat(17, 20)}, nonce \in RandomNonces :
        LET r == encrypt(key, sizeInfo.message, nonce)
        IN  /\ env' = [EnvIdle EXCEPT !.op = "encrypt", !.key = key,
                                      !.message = sizeInfo.message,
                                      !.nonce = nonce, !.text = r.value, !.result = r]
            /\ UNCHANGED <<vaultVars, sizeInfo>>

\* MessagingTab.clearAll: message and result are emptied
FitClear ==
    /\ env.op # "none"
    /\ env' = EnvIdle
    /\ sizeInfo' = SizeIdle
    /\ UNCHANGED vaultVars

NextFit == FitType \/ FitEncrypt \/ FitClear

SpecFit == InitSize /\ [][NextFit]_vars

-----------------------------------------------------------------------------
(* Specification SpecRecord: Spec, with page loads over a record that was   *)
(* damaged in localStorage while the page was closed                        *)

\* What a record r can have become: text that JSON.parse rejects, or an
\* object whose salt, iv or data field is missing or unusable ("abc" is a
\* hex text of odd length, which hexToArrayBuffer rejects; a data field is
\* null when it is missing or atob rejects it).
DamagedRecords(r) ==
    { [r EXCEPT !.json = FALSE],
      [r EXCEPT !.salt = Null],
      [r EXCEPT !.salt = Some(<<97, 98, 99>>)],
      [r EXCEPT !.iv = Null],
      [r EXCEPT !.iv = Some(<<97, 98, 99>>)],
      [r EXCEPT !.data = Null] }

\* the page is loaded over a damaged record: the store and its AsconCrypto
\* are constructed anew (part_000:38-39), the constructor reading the record
LoadDamaged ==
    /\ ~IsNull(storage)
    /\ \E d \in DamagedRecords(storage[1]) :
          Becomes(NewAsconCrypto(Some(d)), StoreInitial,
                  Call("loadDamaged", d, Returned(TRUE)))

NextRecord ==
    \/ Next
    \/ LoadDamaged

SpecRecord == Init /\ [][NextRecord]_vars

-----------------------------------------------------------------------------
(* Specification SpecContacts: the contact list, with a running clock       *)

MaxBookContacts == 2

MaxTicks == 1

\* names typed into the add-contact form: "Bob", " Bob", "BOB", "Ann"
BookNames == {<<66, 111, 98>>, <<32, 66, 111, 98>>, <<66, 79, 66>>, <<65, 110, 110>>}

\* "a1" twenty times: a well-formed 40-character key
HexKeyE == arrayBufferToHex(Repeat(161, 20))

\* Contact export documents handed to importContacts:
\*  - "bob", "Ann" and "Cy", Cy with Ann's key and an added field "x";
\*  - an entry without a name, then "Dee" and "Eve", both with the key
\*    text "12";
\*  - an entry whose name is a number;
\*  - an object whose contacts field is no array;
\*  - a text that is no JSON.
BookDocuments ==
    { [json |-> TRUE,
       contacts |-> Some(<<Candidate(<<98, 111, 98>>, HexKeyC),
                           Candidate(<<65, 110, 110>>, HexKeyE),
                           [name |-> Some(<<67, 121>>), keyHex |-> Some(HexKeyE),
                            added |-> Some(<<120>>), nameIsString |-> TRUE]>>)],
      [json |-> TRUE,
       contacts |-> Some(<<[name |-> Null, keyHex |-> Some(HexKeyC),
                            added |-> Null, nameIsString |-> TRUE],
                           Candidate(<<68, 101, 101>>, <<49, 50>>),
                           Candidate(<<69, 118, 101>>, <<49, 50>>)>>)],
      [json |-> TRUE,
       contacts |-> Some(<<[name |-> Some(<<55>>), keyHex |-> Some(HexKeyC),
                            added |-> Null, nameIsString |-> FALSE]>>)],
      [json |-> TRUE, contacts |-> Null],
      [json |-> FALSE, contacts |-> Null] }

\* a millisecond passes between two calls
Tick ==
    /\ now < StartTime + MaxTicks
    /\ now' = now + 1
    /\ lastCall' = Call("tick", <<>>, Returned(TRUE))
    /\ UNCHANGED <<asconKey, contacts, masterKey, masterKeySalt, storage, store,
                   env, sizeInfo, pending, isUnlocking>>

\* store.unlock(password) with the password "p1"
BookUnlock ==
    \E salt \in {Repeat(10, 16)} :
        LET o == unlock(This, <<112, 49>>, salt)
        IN  /\ Becomes(o.c,
                       IF o.result.value THEN refreshState(store, o.c) ELSE store,
                       Call("unlock", <<112, 49>>, o.result))

\* store.addContact(name, keyHex)
BookAdd ==
    \E name \in BookNames, keyHex \in ContactKeys, iv \in RandomIVs :
        LET o == addContact(This, name, keyHex, now, iv)
        IN  /\ Len(contacts) < MaxBookContacts
            /\ Becomes(o.c, IF o.result.ok THEN refreshState(store, o.c) ELSE store,
                       Call("addContact", [name |-> name, keyHex |-> keyHex], o.result))

\* store.removeContact(id), for the id of a listed contact or an unknown id
BookRemove ==
    \E id \in {contacts[i].id : i \in 1..Len(contacts)} \cup {<<48>>}, iv \in RandomIVs :
        LET o == removeContact(This, id, iv)
        IN  /\ Becomes(o.c,
                       IF o.result.ok /\ o.result.value THEN refreshState(store, o.c)
                       ELSE store,
                       Call("removeContact", id, o.result))

\* store.importContacts(jsonData)
BookImport ==
    \E doc \in BookDocuments, iv \in RandomIVs :
        LET o == importContacts(This, doc, now, iv)
        IN  /\ Len(o.c.contacts) <= MaxBookContacts
            /\ Becomes(o.c,
                       IF o.result.ok /\ o.result.value.imported > 0
                       THEN refreshState(store, o.c) ELSE store,
                       Call("importContacts", doc, o.result))

NextContacts ==
    \/ Reload
    \/ BookUnlock
    \/ BookAdd
    \/ BookRemove
    \/ BookImport
    \/ Tick

SpecContacts == Init /\ [][NextContacts]_vars

\* Specification SpecMerge: the calls that add to the contact list
NextMerge ==
    \/ BookUnlock
    \/ BookAdd
    \/ BookImport

SpecMerge == Init /\ [][NextMerge]_vars

-----------------------------------------------------------------------------
(* Specification SpecAttempts: a page opened over a record that was saved   *)
(* under the password "p1", and no clearAll call by the user                *)

\* the password the record was saved under, "p1"
SavedPassword == <<112, 49>>

\* The record left by unlock("p1") and generateKey() on an empty storage.
SavedRecord ==
    LET created == unlock(NewAsconCrypto(Null), SavedPassword, Repeat(10, 16))
        saved   == generateKey(created.c, Repeat(7, 20), Repeat(1, 12))
    IN  saved.c.storage

\* the page is loaded over the saved record
InitAttempts ==
    LET c == NewAsconCrypto(SavedRecord)
    IN  /\ asconKey = c.asconKey
        /\ contacts = c.contacts
        /\ masterKey = c.masterKey
        /\ masterKeySalt = c.masterKeySalt
        /\ storage = c.storage
        /\ now = StartTime
        /\ store = StoreInitial
        /\ lastCall = Call("load", <<>>, Returned(TRUE))
        /\ env = EnvIdle
        /\ sizeInfo = SizeIdle
        /\ pending = <<>>
        /\ isUnlocking = FALSE

\* every operation of the store but clearAll
NextAttempts ==
    \/ Reload
    \/ Initialize
    \/ Unlock
    \/ GenerateKey
    \/ ImportKey
    \/ AddContact
    \/ RemoveContact
    \/ ImportContacts
    \/ SaveState

SpecAttempts == InitAttempts /\ [][NextAttempts]_vars

-----------------------------------------------------------------------------
(* Specification SpecAsync: overlapping calls.  JavaScript runs a call up   *)
(* to its next await and resumes it, in a later step, when the awaited      *)
(* WebCrypto promise settles; promises of different calls settle in any     *)
(* order.  A step that settles the last promise of a call also runs the     *)
(* continuations in the store and in the component that awaited the call.   *)

MaxInFlight == 2

\* A call suspended at an await: the operation, the WebCrypto promise it
\* waits for, and the locals it holds (password; the salt handed to
\* deriveKey; the iv and the ciphertext handed to or expected from AES-GCM;
\* the value the call will return).  The field cleared is history, not
\* program state: clearAll has returned since the call was started.
Suspended(op, pc, password, salt, iv, data, value) ==
    [op |-> op, pc |-> pc, password |-> password, salt |-> salt, iv |-> iv,
     data |-> data, value |-> value, cleared |-> FALSE]

\* the pending calls without the i-th
Without(calls, i) == SubSeq(calls, 1, i - 1) \o SubSeq(calls, i + 1, Len(calls))

\* App.renderContent shows LockScreen, and not the tabs, iff the store is
\* initialized and says locked
LockScreenShown == store.isInitialized /\ store.isLocked

TabsShown == store.isInitialized /\ ~store.isLocked

\* the salt a new vault draws, and the key generateKey draws
AsyncSalts == {Repeat(203, 16)}

AsyncKeys == {Repeat(9, 20), Repeat(11, 20)}

\* the state of the instance and of the store after a step that leaves the
\* clock and the message form alone
AsyncBecomes(c, st) ==
    /\ asconKey' = c.asconKey
    /\ contacts' = c.contacts
    /\ masterKey' = c.masterKey
    /\ masterKeySalt' = c.masterKeySalt
    /\ storage' = c.storage
    /\ store' = st
    /\ UNCHANGED <<now, env, sizeInfo>>

\* handleUnlock up to the first await of crypto.unlock: a new vault draws
\* its salt, then subtle.importKey is awaited
StartUnlock(password) ==
    /\ Len(pending) < MaxInFlight
    /\ \E salt \in AsyncSalts :
        AsyncBecomes([This EXCEPT !.masterKeySalt =
                         IF IsNull(masterKeySalt) THEN Some(salt) ELSE masterKeySalt],
                     store)
    /\ pending' = Append(pending,
                         Suspended("unlock", "importKey", password, Null, Null, Null, Null))
    /\ isUnlocking' = TRUE
    /\ UNCHANGED lastCall

\* the Unlock button, disabled while isUnlocking
ClickUnlock ==
    /\ LockScreenShown
    /\ ~isUnlocking
    /\ \E password \in Passwords : StartUnlock(password)

\* the Enter key in the password field, which calls handleUnlock whatever
\* isUnlocking is
EnterUnlock ==
    /\ LockScreenShown
    /\ \E password \in Passwords : StartUnlock(password)

\* crypto.unlock has returned false to the store and to handleUnlock
UnlockFailed(c, i) ==
    /\ AsyncBecomes(c, store)
    /\ pending' = Without(pending, i)
    /\ isUnlocking' = FALSE
    /\ lastCall' = Call("unlock", pending[i].password, Returned(FALSE))

\* crypto.unlock has returned true: the store refreshes, and LockScreen is
\* unmounted when the store no longer says locked
UnlockSucceeded(c, i) ==
    /\ AsyncBecomes(c, refreshState(store, c))
    /\ pending' = Without(pending, i)
    /\ isUnlocking' = (isUnlocking /\ isLocked(c))
    /\ lastCall' = Call("unlock", pending[i].password, Returned(TRUE))

\* subtle.importKey has settled: deriveKey is called with the salt the
\* instance holds now, and rejects when there is none
UnlockImportKeyDone ==
    \E i \in 1..Len(pending) :
        /\ pending[i].op = "unlock"
        /\ pending[i].pc = "importKey"
        /\ IF IsNull(masterKeySalt)
           THEN UnlockFailed([This EXCEPT !.masterKey = Null], i)
           ELSE /\ pending' = [pending EXCEPT ![i].pc = "deriveKey",
                                              ![i].salt = masterKeySalt]
                /\ AsyncBecomes(This, store)
                /\ UNCHANGED <<isUnlocking, lastCall>>

\* subtle.deriveKey has settled: the master key is assigned; with no record
\* unlock returns true, otherwise loadState runs up to its subtle.decrypt
UnlockDeriveKeyDone ==
    \E i \in 1..Len(pending) :
        /\ pending[i].op = "unlock"
        /\ pending[i].pc = "deriveKey"
        /\ LET derivedKey == PBKDF2(pending[i].password, pending[i].salt[1], 300000, 256)
               c2         == [This EXCEPT !.masterKey = Some(derivedKey)]
           IN  IF IsNull(storage) THEN UnlockSucceeded(c2, i)
               ELSE IF \/ ~storage[1].json
                       \/ IsNull(storage[1].iv)
                       \/ IsNull(storage[1].data)
                    THEN UnlockFailed(clearAll(c2), i)
               ELSE IF hexToArrayBufferThrows(storage[1].iv[1])
                    THEN UnlockFailed(clearAll(c2), i)
               ELSE /\ pending' = [pending EXCEPT
                                     ![i].pc = "decrypt",
                                     ![i].iv = Some(hexToArrayBuffer(storage[1].iv[1])),
                                     ![i].data = storage[1].data]
                    /\ AsyncBecomes(c2, store)
                    /\ UNCHANGED <<isUnlocking, lastCall>>

\* subtle.decrypt has settled: loadState assigns the decrypted state, or
\* its catch block calls clearAll
UnlockDecryptDone ==
    \E i \in 1..Len(pending) :
        /\ pending[i].op = "unlock"
        /\ pending[i].pc = "decrypt"
        /\ LET key  == PBKDF2(pending[i].password, pending[i].salt[1], 300000, 256)
               iv   == pending[i].iv[1]
               data == pending[i].data[1]
           IN  IF AesGcmDecryptThrows(key, iv, data)
               THEN UnlockFailed(clearAll(This), i)
               ELSE LET state == AesGcmDecrypt(key, iv, data)
                    IN  IF ~IsNull(state.asconKey)
                           /\ hexToArrayBufferThrows(state.asconKey[1])
                        THEN UnlockFailed(clearAll(This), i)
                        ELSE UnlockSucceeded(
                               [This EXCEPT
                                  !.asconKey =
                                     IF IsNull(state.asconKey) THEN Null
                                     ELSE Some(hexToArrayBuffer(state.asconKey[1])),
                                  !.contacts = state.contacts], i)

\* A mutating call of the store up to the await in saveState.  c is the
\* instance after the call's own assignment; saveState throws at once with
\* no master key, otherwise it serializes the state as it is now, draws the
\* iv and waits for subtle.encrypt.
StartSave(op, c, value, iv) ==
    /\ Len(pending) < MaxInFlight
    /\ AsyncBecomes(c, store)
    /\ UNCHANGED isUnlocking
    /\ IF IsNull(c.masterKey)
       THEN /\ lastCall' = Call(op, <<>>, Thrown("ENCRYPTION_FAILED"))
            /\ UNCHANGED pending
       ELSE LET state == [asconKey |-> IF IsNull(c.asconKey) THEN Null
                                       ELSE Some(arrayBufferToHex(c.asconKey[1])),
                          contacts |-> c.contacts]
                encryptedData == AesGcmEncrypt(c.masterKey[1], iv, state)
            IN  /\ pending' = Append(pending,
                                     Suspended(op, "encrypt", <<>>, Null, Some(iv),
                                               Some(encryptedData), value))
                /\ UNCHANGED lastCall

\* a call that throws before its first await
AsyncThrows(op, code) ==
    /\ AsyncBecomes(This, store)
    /\ lastCall' = Call(op, <<>>, Thrown(code))
    /\ UNCHANGED <<pending, isUnlocking>>

\* store.generateKey() from the key tab
AsyncGenerateKey ==
    /\ TabsShown
    /\ \E key \in AsyncKeys, iv \in RandomIVs :
        StartSave("generateKey", [This EXCEPT !.asconKey = Some(key)], Null, iv)

\* store.addContact(name, keyHex) from the contacts tab
AsyncAddContact ==
    /\ TabsShown
    /\ Len(contacts) < MaxContacts
    /\ \E name \in {<<66, 111, 98>>}, keyHex \in {HexKeyD}, iv \in RandomIVs :
        IF IsBlank(name)
        THEN AsyncThrows("addContact", "INVALID_INPUT")
        ELSE IF Len(keyHex) # KeyHexLength \/ ~IsHexString(keyHex)
        THEN AsyncThrows("addContact", "INVALID_KEY")
        ELSE IF NameExists(contacts, name)
        THEN AsyncThrows("addContact", "INVALID_INPUT")
        ELSE LET contact == [id |-> NumberToString(now), name |-> trim(name),
                             keyHex |-> keyHex, added |-> toISOString(now)]
             IN  StartSave("addContact",
                           [This EXCEPT !.contacts = Append(contacts, contact)],
                           Some(contact), iv)

\* subtle.encrypt has settled: saveState reads the salt the instance holds
\* now; arrayBufferToHex(null) throws, otherwise the record is written and
\* the store refreshes
SaveEncryptDone ==
    \E i \in 1..Len(pending) :
        /\ pending[i].pc = "encrypt"
        /\ UNCHANGED isUnlocking
        /\ pending' = Without(pending, i)
        /\ IF IsNull(masterKeySalt)
           THEN /\ AsyncBecomes(This, store)
                /\ lastCall' = Call(pending[i].op, <<>>, Thrown("TypeError"))
           ELSE LET c == [This EXCEPT !.storage =
                             Some(VaultText(arrayBufferToHex(masterKeySalt[1]),
                                            arrayBufferToHex(pending[i].iv[1]),
                                            pending[i].data[1]))]
                IN  /\ AsyncBecomes(c, refreshState(store, c))
                    /\ lastCall' = Call(pending[i].op, <<>>,
                                        Returned(IF pending[i].op = "generateKey"
                                                 THEN asconKey ELSE pending[i].value))

\* store.clearAll() from the key tab; calls in flight go on
AsyncClearAll ==
    /\ TabsShown
    /\ AsyncBecomes(clearAll(This),
                    [store EXCEPT !.hasKey = FALSE, !.isLocked = TRUE, !.hasVault = FALSE])
    /\ lastCall' = Call("clearAll", <<>>, Returned(WipedKey(This)))
    /\ pending' = [i \in 1..Len(pending) |-> [pending[i] EXCEPT !.cleared = TRUE]]
    /\ UNCHANGED isUnlocking

\* the page is loaded again: calls in flight die with the old page
AsyncReload ==
    /\ AsyncBecomes(NewAsconCrypto(storage), StoreInitial)
    /\ lastCall' = Call("load", <<>>, Returned(TRUE))
    /\ pending' = <<>>
    /\ isUnlocking' = FALSE

NextAsync ==
    \/ AsyncReload
    \/ Initialize
    \/ ClickUnlock
    \/ EnterUnlock
    \/ UnlockImportKeyDone
    \/ UnlockDeriveKeyDone
    \/ UnlockDecryptDone
    \/ AsyncGenerateKey
    \/ AsyncAddContact
    \/ SaveEncryptDone
    \/ AsyncClearAll

SpecAsync == InitAttempts /\ [][NextAsync]_vars

\* Specification SpecSaves: the saved vault, unlocked with its password, and
\* the mutating calls from the tabs, which may overlap
InitSaves ==
    LET c == unlock(NewAsconCrypto(SavedRecord), SavedPassword, Repeat(10, 16)).c
    IN  /\ asconKey = c.asconKey
        /\ contacts = c.contacts
        /\ masterKey = c.masterKey
        /\ masterKeySalt = c.masterKeySalt
        /\ storage = c.storage
        /\ now = StartTime
        /\ store = refreshState([StoreInitial EXCEPT !.isInitialized = TRUE], c)
        /\ lastCall = Call("unlock", SavedPassword, Returned(TRUE))
        /\ env = EnvIdle
        /\ sizeInfo = SizeIdle
        /\ pending = <<>>
        /\ isUnlocking = FALSE

NextSaves ==
    \/ AsyncGenerateKey
    \/ AsyncAddContact
    \/ SaveEncryptDone

SpecSaves == InitSaves /\ [][NextSaves]_vars

-----------------------------------------------------------------------------
(* Properties                                                               *)

\* the password opens the record st: the key PBKDF2 derives from it and the
\* record's salt is the key the record's data was encrypted with
PasswordOpens(password, st) ==
    PBKDF2(password, hexToArrayBuffer(st[1].salt[1]), 300000, 256) = st[1].data[1].key

\* the operations that change the personal key or the contact list
Mutators == {"generateKey", "importKey", "addContact", "removeContact", "importContacts"}

\* the call ran saveState() to its end
SaveCompleted(call) ==
    /\ call.result.ok
    /\ \/ call.op \in {"saveState", "generateKey", "addContact"}
       \/ call.op \in {"importKey", "removeContact"} /\ call.result.value = TRUE
       \/ call.op = "importContacts" /\ call.result.value.imported > 0

\* C1: unlock with a wrong password on a vault that has a persisted record
\* returns false, leaves hasVault() true and leaves the record unchanged.
C1_WrongPasswordKeepsRecord ==
    [][(/\ lastCall'.op = "unlock"
        /\ ~IsNull(storage)
        /\ ~PasswordOpens(lastCall'.arg, storage))
       => (/\ lastCall'.result = Returned(FALSE)
           /\ ~IsNull(storage')
           /\ storage' = storage)]_vars

C3_RoundTrip ==
    /\ (env.op = "encrypt")
       => LET data == base64ToArrayBuffer(env.text)
          IN  /\ env.result.ok
              /\ ~base64ToArrayBufferThrows(env.text)
              /\ Len(data) = 16 + Len(TextEncode(env.message)) + 16
              /\ Len(data) >= 32
              /\ SubSeq(data, 1, 16) = env.nonce
    /\ (env.op = "decrypt" /\ env.decKey = env.key)
       => env.result = Returned(env.message)

\* C4 as stated: decrypt(K2, encrypt(K1, M)) with K1 # K2 fails and the
\* failure is reported as AuthenticationFailure.
C4_AuthenticationFailure ==
    (env.op = "decrypt" /\ env.decKey # env.key)
    => (~env.result.ok /\ env.result.code = "AuthenticationFailure")

\* C4: decrypt(K2, encrypt(K1, M)) with K1 # K2 never returns a plaintext:
\* it throws, and the error's code is DECRYPTION_FAILED.
C4_WrongKeyFails ==
    (env.op = "decrypt" /\ env.decKey # env.key)
    => (~env.result.ok /\ env.result.code = "DECRYPTION_FAILED")

\* a text encrypted under one key has been given to decrypt with another
C4_Witness ==
    /\ env.op = "decrypt"
    /\ env.decKey # env.key
    /\ ~env.result.ok

\* C5: in password mode the text is the 32 hex characters of the salt
\* followed by the base64 envelope, and decrypting it with the same password
\* re-derives the same key and returns the message.
C5_PasswordRoundTrip ==
    /\ (env.op \in {"handleEncrypt", "handleDecrypt"} /\ ~IsBlank(env.message)
           /\ ~IsBlank(env.password))
       => LET saltHex == SubSeq(env.text, 1, 32)
              key     == PBKDF2(env.password, env.salt, 250000, 160)
          IN  /\ Len(env.text) >= 32
              /\ saltHex = arrayBufferToHex(env.salt)
              /\ hexToArrayBuffer(saltHex) = env.salt
              /\ Len(key) = 20
              /\ SubSeq(env.text, 33, Len(env.text))
                    = encrypt(key, env.message, env.nonce).value
    /\ (env.op = "handleDecrypt" /\ env.decPassword = env.password)
       => env.result = Returned(env.message)

\* C6: once the store is initialized, the application is locked whenever no
\* master key is set.
C6_LockedWithoutMasterKey ==
    (store.isInitialized /\ IsNull(masterKey)) => store.isLocked

\* ok < warning < error
StatusRank(status) == IF status = "ok" THEN 0 ELSE IF status = "warning" THEN 1 ELSE 2

\* C7: for a message of n UTF-8 bytes calculateMessageSize returns
\* messageBytes = n and encodedBytes = ceil((n + 32) * 4 / 3), the least
\* integer e with 3e >= 4(n + 32); status is ok iff encodedBytes <= 200,
\* warning iff 201..237, error iff > 237; n = 0 gives 43/ok, n = 150 gives
\* 243/error; one more character never gives a better status.
C7_MessageSize ==
    LET m == sizeInfo.message
        r == sizeInfo.result
        n == Len(m) + Cardinality({i \in 1..Len(m) : m[i] >= 128})
                    + Cardinality({i \in 1..Len(m) : m[i] >= 2048})
        e == r.encodedBytes
    IN  /\ r.messageBytes = n
        /\ 3 * e >= 4 * (n + 32)
        /\ 3 * (e - 1) < 4 * (n + 32)
        /\ r.status \in {"ok", "warning", "error"}
        /\ r.status = "ok" <=> e <= 200
        /\ r.status = "warning" <=> (201 <= e /\ e <= 237)
        /\ r.status = "error" <=> e > 237
        /\ n = 0 => (e = 43 /\ r.status = "ok")
        /\ n = 150 => (e = 243 /\ r.status = "error")
        /\ \A ch \in {97, 233} :
              StatusRank(r.status) <= StatusRank(calculateMessageSize(Append(m, ch)).status)

\* a message of 150 bytes has been measured
C7_Witness ==
    /\ sizeInfo.result.messageBytes = 150
    /\ sizeInfo.result.status = "error"

\* C8: unlock with no persisted record returns true and leaves the vault
\* unlocked (master key and salt set) with no personal key and no contacts,
\* whatever was called on the instance before.
C8_UnlockNewVaultIsEmpty ==
    [][(lastCall'.op = "unlock" /\ IsNull(storage))
       => (/\ lastCall'.result = Returned(TRUE)
           /\ ~IsNull(masterKey')
           /\ ~IsNull(masterKeySalt')
           /\ IsNull(asconKey')
           /\ contacts' = <<>>)]_vars

\* C9: saveState called while no master key is set throws (code
\* ENCRYPTION_FAILED) and neither creates nor modifies the persisted record,
\* whether it is called directly or by one of the mutating operations.
C9_SaveStateNeedsMasterKey ==
    [][/\ (lastCall'.op = "saveState" /\ IsNull(masterKey))
          => (/\ ~lastCall'.result.ok
              /\ lastCall'.result.code = "ENCRYPTION_FAILED"
              /\ storage' = storage)
       /\ (lastCall'.op \in Mutators /\ IsNull(masterKey))
          => storage' = storage]_vars

\* saveState has been refused on a locked vault whose record exists
C9_Witness ==
    /\ lastCall.op = "saveState"
    /\ ~lastCall.result.ok
    /\ IsNull(masterKey)
    /\ ~IsNull(storage)

\* C10: generateKey, importKey, addContact, removeContact and importContacts
\* called while no master key is set leave the in-memory personal key and
\* contact list as they were.
C10_MutatorsNeedMasterKey ==
    [][(lastCall'.op \in Mutators /\ IsNull(masterKey))
       => (asconKey' = asconKey /\ contacts' = contacts)]_vars

\* C11: every save writes a whole record whose salt is the salt the
\* session's master key was derived from, and a record that is replaced by
\* another keeps its salt (so for a vault that existed before unlock the
\* salt is the one stored before).
C11_SaltUnchanged ==
    [][/\ (SaveCompleted(lastCall') /\ ~IsNull(masterKey'))
          => /\ ~IsNull(storage') /\ ~IsNull(masterKeySalt')
             /\ storage'[1].json
             /\ ~IsNull(storage'[1].salt) /\ ~IsNull(storage'[1].iv)
             /\ ~IsNull(storage'[1].data)
             /\ ~hexToArrayBufferThrows(storage'[1].salt[1])
             /\ hexToArrayBuffer(storage'[1].salt[1]) = masterKeySalt'[1]
             /\ \E p \in Passwords :
                   masterKey'[1] = PBKDF2(p, hexToArrayBuffer(storage'[1].salt[1]),
                                          300000, 256)
             /\ storage'[1].data[1].key = masterKey'[1]
       /\ (~IsNull(storage) /\ ~IsNull(storage'))
          => storage'[1].salt = storage[1].salt]_vars

\* addContact has saved a record that holds a personal key and the contact
C11_Witness ==
    /\ SaveCompleted(lastCall)
    /\ lastCall.op = "addContact"
    /\ ~IsNull(asconKey)
    /\ ~IsNull(storage)
    /\ storage[1].data[1].plaintext.contacts = contacts
    /\ store.isInitialized

\* C12: after clearAll the personal key is absent and the buffer that held
\* it holds zeros only, master key and salt are absent, the contact list is
\* empty and hasVault() is false, in the instance and in the store.
C12_ClearAllWipes ==
    [][(lastCall'.op = "clearAll")
       => /\ IsNull(asconKey')
          /\ IsNull(masterKey')
          /\ IsNull(masterKeySalt')
          /\ contacts' = <<>>
          /\ IsNull(storage')
          /\ ~hasVault(Instance(asconKey', contacts', masterKey', masterKeySalt', storage'))
          /\ ~store'.hasVault /\ ~store'.hasKey
          /\ IsNull(lastCall'.result.value) <=> IsNull(asconKey)
          /\ ~IsNull(asconKey)
             => /\ Len(lastCall'.result.value[1]) = Len(asconKey[1])
                /\ \A i \in 1..Len(asconKey[1]) : lastCall'.result.value[1][i] = 0]_vars

\* clearAll has run on an unlocked vault that held a personal key
C12_Witness ==
    /\ lastCall.op = "clearAll"
    /\ ~IsNull(lastCall.result.value)
    /\ IsNull(asconKey)
    /\ IsNull(storage)

\* the record lacks the expected structure
Malformed(r) ==
    \/ ~r.json
    \/ IsNull(r.salt) \/ IsNull(r.iv) \/ IsNull(r.data)
    \/ hexToArrayBufferThrows(r.salt[1])
    \/ hexToArrayBufferThrows(r.iv[1])

\* nothing is left in the instance or in localStorage
Cleared(k, cs, mk, salt, st) ==
    IsNull(k) /\ cs = <<>> /\ IsNull(mk) /\ IsNull(salt) /\ IsNull(st)

\* C13: a record without the expected structure is handled as clearAll
\* (record deleted, in-memory state emptied), by the page load when the
\* constructor already meets the damage and by unlock otherwise, and unlock
\* reports it with an outcome other than the one of a wrong password
\* (which is the return value false).
C13_MalformedRecordReported ==
    [][/\ (lastCall'.op = "loadDamaged" /\ ~IsNull(storage'))
          => /\ Malformed(storage'[1])
             /\ IsNull(masterKey') /\ IsNull(asconKey') /\ contacts' = <<>>
       /\ (lastCall'.op = "unlock" /\ ~IsNull(storage) /\ Malformed(storage[1]))
          => /\ Cleared(asconKey', contacts', masterKey', masterKeySalt', storage')
             /\ lastCall'.result # Returned(FALSE)]_vars

\* C17: the personal key is absent or exactly 20 bytes long.
C17_KeyIsTwentyBytes ==
    IsNull(asconKey) \/ Len(asconKey[1]) = 20

\* C14: no two contacts of the list have the same name, compared
\* case-insensitively, as stored.
C14_UniqueNames ==
    \A i, j \in 1..Len(contacts) :
        i # j => toLowerCase(contacts[i].name) # toLowerCase(contacts[j].name)

\* the name equals, case-insensitively, the name of a contact of the list cs
SameNameListed(cs, name) ==
    \E i \in 1..Len(cs) : toLowerCase(cs[i].name) = toLowerCase(name)

C16_ContactsWellFormed ==
    \A i \in 1..Len(contacts) :
        /\ Len(contacts[i].name) > 0
        /\ Len(contacts[i].keyHex) = 40
        /\ IsHexString(contacts[i].keyHex)

\* C18: the contacts of the list have pairwise distinct ids.
C18_DistinctIds ==
    \A i, j \in 1..Len(contacts) : i # j => contacts[i].id # contacts[j].id

\* C19: removeContact(id) returns true iff a contact with that id was in
\* the list; the contacts with another id remain, in their order; when it
\* returns true the new list is the one saved, when it returns false the
\* list and the record are unchanged.
C19_RemoveContact ==
    [][(lastCall'.op = "removeContact")
       => LET id      == lastCall'.arg
              present == \E i \in 1..Len(contacts) : contacts[i].id = id
          IN  /\ lastCall'.result.ok
              /\ lastCall'.result.value = present
              /\ contacts' = SelectSeq(contacts, LAMBDA x : x.id # id)
              /\ present => /\ ~IsNull(storage')
                            /\ storage'[1].data[1].plaintext.contacts = contacts'
              /\ ~present => (contacts' = contacts /\ storage' = storage)]_vars

C21_MalformedDocumentInvalidInput ==
    (/\ lastCall.op = "importContacts"
     /\ (~lastCall.arg.json \/ IsNull(lastCall.arg.contacts)))
    => (/\ ~lastCall.result.ok
        /\ lastCall.result.code = "INVALID_INPUT")

\* C22: importKey never throws, and whenever it returns false the personal
\* key in memory and the persisted record are what they were before the
\* call.
C22_ImportKeyFalseIsNoOp ==
    [][lastCall'.op = "importKey"
       => (/\ lastCall'.result.ok
           /\ (lastCall'.result.value = FALSE
               => (asconKey' = asconKey /\ storage' = storage)))]_vars

\* C25: a message of up to 205 UTF-8 bytes is never classified as error by
\* calculateMessageSize.
C25_FitsUpTo205 ==
    sizeInfo.result.messageBytes <= 205 => sizeInfo.result.status # "error"

\* C30: in contact-key and personal-key modes the text encrypt returns for
\* a message is at most 200 characters long whenever calculateMessageSize
\* reports ok for that message, at most 237 whenever it reports ok or
\* warning, and at most 2 longer than the reported encodedBytes (and never
\* shorter); it is the padded base64 of the message's bytes plus 32.
C30_EstimateCoversEnvelope ==
    env.op = "encrypt"
    => LET r      == calculateMessageSize(env.message)
           actual == Len(env.text)
       IN  /\ env.result.ok
           /\ sizeInfo.message = env.message
           /\ sizeInfo.result = r
           /\ actual = 4 * ((r.messageBytes + 32 + 2) \div 3)
           /\ r.status = "ok" => actual <= 200
           /\ r.status \in {"ok", "warning"} => actual <= 237
           /\ actual >= r.encodedBytes
           /\ actual - r.encodedBytes <= 2

\* a message estimated at 235 bytes (warning) has been encrypted and its
\* text is one character longer than the estimate
C30_Witness ==
    /\ env.op = "encrypt"
    /\ sizeInfo.result.status = "warning"
    /\ sizeInfo.result.encodedBytes = 235
    /\ Len(env.text) = 236

\* C29: whenever importContacts throws, the contact list in memory is the
\* one from before the call.
C29_ImportAllOrNothing ==
    [][(lastCall'.op = "importContacts" /\ ~lastCall'.result.ok)
       => contacts' = contacts]_vars

\* C26: starting from a record saved under the password P and with no
\* clearAll call by the user, an unlock with a password other than P never
\* returns true and leaves the vault Locked (record present, no master
\* key); an unlock with P returns true and the vault then holds the state
\* the record holds.
C26_WrongPasswordsNeverOpen ==
    lastCall.op = "unlock"
    => /\ lastCall.arg # SavedPassword
          => (/\ lastCall.result.value = FALSE
              /\ hasVault(This)
              /\ IsNull(masterKey))
       /\ lastCall.arg = SavedPassword
          => (/\ lastCall.result.value = TRUE
              /\ hasVault(This)
              /\ PasswordOpens(SavedPassword, storage)
              /\ storage[1].data[1].plaintext.contacts = contacts
              /\ storage[1].data[1].plaintext.asconKey =
                    (IF IsNull(asconKey) THEN Null
                     ELSE Some(arrayBufferToHex(asconKey[1]))))

\* C23: once the mutating calls that were in flight have all completed, the
\* last of them successfully, the persisted record decrypts with the master
\* key to the contact list and the personal key the instance holds.
C23_SavesDoNotInterleave ==
    (/\ pending = <<>>
     /\ lastCall.op \in {"generateKey", "addContact"}
     /\ lastCall.result.ok)
    => /\ ~IsNull(storage)
       /\ ~IsNull(masterKey)
       /\ storage[1].data[1].key = masterKey[1]
       /\ storage[1].data[1].plaintext.contacts = contacts
       /\ storage[1].data[1].plaintext.asconKey =
             (IF IsNull(asconKey) THEN Null ELSE Some(arrayBufferToHex(asconKey[1])))

\* C24: at most one unlock is in flight on the instance at any time.
C24_OneUnlockInFlight ==
    Cardinality({i \in 1..Len(pending) : pending[i].op = "unlock"}) <= 1

\* C27: in every reachable state, calls in flight or not, a master key
\* that is set comes with a master-key salt that is set.
C27_MasterKeyHasSalt ==
    ~IsNull(masterKey) => ~IsNull(masterKeySalt)

\* C28: a save that was started before clearAll returned neither re-creates
\* nor overwrites the persisted record when it completes.
C28_ClearAllIsFinal ==
    [][\A i \in 1..Len(pending) :
          (/\ pending[i].pc = "encrypt"
           /\ pending[i].cleared
           /\ pending' = Without(pending, i)
           /\ lastCall'.op = pending[i].op)
          => storage' = storage]_vars

=============================================================================
